---- MODULE Spec2Model ----
(***************************************************************************)
(* Model of the speakleash client library: the time-bucketed structure     *)
(* cache (StructureDownloader, in its modular and its monolithic form)     *)
(* and the payload download-and-verify logic of SpeakleashDataset.         *)
(***************************************************************************)
EXTENDS Integers, Sequences, FiniteSets, TLC

(* ---------------------------- bounds ----------------------------------- *)
\* the clock runs over the hours 0..MaxHour
MaxHour == 2
\* hours per calendar day (scaled down so that a day rolls over in MaxHour)
HoursPerDay == 2
\* largest byte count of a payload body, a Content-Length or a file_size
MaxSize == 2
\* largest number of entries of a catalog document
MaxEntries == 3
\* largest number of characters of a served category list
MaxText == 3

(* --------------------------- JSON documents ---------------------------- *)
\* Python None / JSON null
None == [t |-> "null", kv |-> {}]

\* a JSON object, as its set of <<key, value>> pairs
Dict(kv) == [t |-> "dict", kv |-> kv]

\* the documents a server can serve: two manifests, {"file_size": 1} and
\* {"file_size": 2}
Documents == {Dict({<<"file_size", 1>>}), Dict({<<"file_size", 2>>})}

\* Python truthiness of a document: None and {} are falsy
Truthy(d) == d.t # "null" /\ d.kv # {}

\* dict.get(key, default)
Get(d, key, default) ==
    IF \E p \in d.kv : p[1] = key
    THEN (CHOOSE p \in d.kv : p[1] = key)[2]
    ELSE default

\* json.dump / json.dumps: the text of a document
json_dump(d) == [enc |-> "json", doc |-> d]

\* a text that is not JSON
Garbage == [enc |-> "garbage", doc |-> None]

\* no file at a path
NoFile == [enc |-> "absent", doc |-> None]

\* json.load / json.loads: ok is FALSE when the decoder raises
json_load(text) ==
    IF text.enc = "json" THEN [ok |-> TRUE, doc |-> text.doc]
    ELSE [ok |-> FALSE, doc |-> None]

(* ------------------------------ URLs, time ----------------------------- *)
\* f"{url}{name}.manifest" and f"{url}{name}.sample" of the one dataset
ManifestUrl == "manifest"
SampleUrl == "sample"
URLS == {ManifestUrl, SampleUrl}

\* the dataset names a catalog can list
DatasetNames == {"thesis", "plwiki"}

\* self.url + self.structure_file, the URL of the catalog
CatalogUrl == "speakleash.json"

\* f"{url}{name}.manifest" of a dataset of the catalog
manifest_url(name) == name \o ".manifest"

\* every URL a structure is fetched from
AllUrls == URLS \cup {CatalogUrl} \cup {manifest_url(n) : n \in DatasetNames}

\* hashlib.md5(url).hexdigest(): distinct URLs, distinct digests
generate_hash(url) == <<"md5", url>>

\* strftime("-%m_%d_%y_%H") or strftime("-%m_%d_%y") of the clock t;
\* hour = -1 stands for the date-only form
get_timestamp(hourly, t) ==
    IF hourly THEN [date |-> t \div HoursPerDay, hour |-> t % HoursPerDay]
    ELSE [date |-> t \div HoursPerDay, hour |-> -1]

Timestamps == {get_timestamp(h, t) : h \in BOOLEAN, t \in 0..MaxHour}

\* os.path.join(replicate_dir, f"{url_hash}{timestamp}.json")
Paths == {<<generate_hash(u), ts>> : u \in AllUrls, ts \in Timestamps}

(* ------------------------------ HTTP ----------------------------------- *)
\* what requests.get(url) can do: raise, or return a response with a
\* status (ok = 2xx) and a body
StructureOutcomes ==
    {[kind |-> "error", ok |-> FALSE, text |-> Garbage]}
    \cup {[kind |-> "response", ok |-> TRUE, text |-> x] :
             x \in {Garbage} \cup {json_dump(d) : d \in Documents}}
    \cup {[kind |-> "response", ok |-> FALSE, text |-> json_dump(Dict({}))]}

\* the fetch yields a document: 2xx and a decodable body
FetchOk(o) == o.kind = "response" /\ o.ok /\ json_load(o.text).ok

VARIABLES
    replicate_dir,  \* TRUE iff the directory replicate_dir exists
    cache,          \* the structure-cache files of replicate_dir, by path
    self_data,      \* StructureDownloader.data of the current instance
    now,            \* the clock, in hours
    manifest,       \* SpeakleashDataset.manifest (None: no handle yet)
    payload,        \* the local file {name}.jsonl.zst
    hist,           \* per URL, the previous get_structure call
    last,           \* what the last get_structure call did and returned
    call,           \* what the last check_file / data / ext_data did
    acc,            \* what the last manifest accessor or samples returned
    speakleash,     \* the Speakleash instance: its list of handles
    got,            \* what the last Speakleash.get returned
    twin,           \* the monolithic class run side by side: its directory
    proc,           \* concurrent get_structure calls, step by step
    temp_dir,       \* the files {lang}_categories.txt of the temp directory
    category_urls,  \* per language, whether the configured URL is non-empty
    cm,             \* the CategoryManager instance and how it was constructed
    chk             \* what the last check_category call was given and did

\* the variables of the catalog, the accessors and the side-by-side and
\* concurrent runs
ext == <<acc, speakleash, got, twin, proc>>

\* the variables of the category lists
category_vars == <<temp_dir, category_urls, cm, chk>>

vars == <<replicate_dir, cache, self_data, now, manifest, payload, hist,
          last, call, acc, speakleash, got, twin, proc, temp_dir,
          category_urls, cm, chk>>

(* ---------------------- StructureDownloader ---------------------------- *)
\* os.path.exists(file)
exists(c, file) == c[file] # NoFile

\* a variant whose glob pattern matches nothing
Mutant_remove_old_files(c, url) == c

\* a variant whose glob pattern only matches the hourly file names
Mutant_remove_old_files_hourly(c, url) ==
    [f \in Paths |-> IF f[1] = generate_hash(url) /\ f[2].hour # -1
                     THEN NoFile ELSE c[f]]

\* a variant whose glob pattern only matches the daily file names
Mutant_remove_old_files_daily(c, url) ==
    [f \in Paths |-> IF f[1] = generate_hash(url) /\ f[2].hour = -1
                     THEN NoFile ELSE c[f]]

\* _remove_old_files: glob {url_hash}-*.json (every timestamp starts with
\* "-") and os.remove each match
_remove_old_files(c, url) ==
    [f \in Paths |-> IF f[1] = generate_hash(url) THEN NoFile ELSE c[f]]

\* a variant that drops what it loaded
Mutant_get_data_from_file(selfd, c, file) == selfd

\* get_data_from_file: self.data after the (swallowed) attempt to load
get_data_from_file(selfd, c, file) ==
    IF json_load(c[file]).ok THEN json_load(c[file]).doc ELSE selfd

\* get_data_from_url: self.data after the (swallowed) attempt to fetch
get_data_from_url(selfd, o) ==
    IF o.kind = "response" /\ o.ok /\ json_load(o.text).ok
    THEN json_load(o.text).doc
    ELSE selfd

\* write_data_to_file: open(file, 'w') raises, and is swallowed, when the
\* directory is missing
write_data_to_file(c, dir, d, file) ==
    IF dir THEN [c EXCEPT ![file] = json_dump(d)] ELSE c

\* StructureDownloader.get_structure (downloader/structure_downloader.py)
get_structure(c, dir, selfd, t, url, hourly, o) ==
    LET file == <<generate_hash(url), get_timestamp(hourly, t)>>
    IN  IF exists(c, file)
        THEN [data |-> get_data_from_file(selfd, c, file), cache |-> c,
              http |-> 0, hit |-> TRUE]
        ELSE LET d == get_data_from_url(selfd, o)
             IN  [data |-> d,
                  cache |-> write_data_to_file(_remove_old_files(c, url),
                                               dir, d, file),
                  http |-> 1, hit |-> FALSE]

\* StructureDownloader.get_structure (speakleash/__init__.py): data is a
\* local that starts as None; an undecodable cache file falls through
get_structure_mono(c, dir, t, url, hourly, o) ==
    LET file == <<generate_hash(url), get_timestamp(hourly, t)>>
    IN  IF exists(c, file) /\ json_load(c[file]).ok
        THEN [data |-> json_load(c[file]).doc, cache |-> c,
              http |-> 0, hit |-> TRUE]
        ELSE LET d == IF o.kind = "response" /\ o.ok /\ json_load(o.text).ok
                      THEN json_load(o.text).doc
                      ELSE None
             IN  [data |-> d,
                  cache |-> IF dir
                            THEN [_remove_old_files(c, url)
                                    EXCEPT ![file] = json_dump(d)]
                            ELSE _remove_old_files(c, url),
                  http |-> 1, hit |-> FALSE]

(* ------------------------- SpeakleashDataset --------------------------- *)
\* os.path.join(replicate_dir, f'{name}.jsonl.zst')
FilePath == "dataset.jsonl.zst"

\* no local payload file
NoPayload == [exists |-> FALSE, size |-> 0, partial |-> FALSE]

\* what requests.get(url, stream=True) and response.iter_content can do:
\* the GET raises, or a response arrives with a status (ok = 2xx), a
\* Content-Length (declared, 0 when absent) and a body of which `written`
\* bytes reach the file before the stream ends or, when broken, raises
DownloadOutcomes ==
    {[kind |-> "error", ok |-> FALSE, declared |-> 0, written |-> 0,
      broken |-> FALSE]}
    \cup [kind : {"response"}, ok : BOOLEAN, declared : 0..MaxSize,
          written : 0..MaxSize, broken : BOOLEAN]

\* a variant that reports every finished transfer as complete
Mutant_download_complete_always(size, progress) == TRUE

\* a variant whose comparison is inverted
Mutant_download_complete_inverted(size, progress) ==
    IF size # 0 /\ progress = size THEN FALSE ELSE TRUE

\* a variant that only rejects short transfers
Mutant_download_complete_short(size, progress) ==
    IF size # 0 /\ progress < size THEN FALSE ELSE TRUE

\* _download_complete(size, progress)
_download_complete(size, progress) ==
    IF size # 0 /\ progress # size THEN FALSE ELSE TRUE

\* a variant whose default is not 0
Mutant_jsonl_zst_file_size(m) == Get(m, "file_size", 1)

\* jsonl_zst_file_size: manifest.get("file_size", 0)
jsonl_zst_file_size(m) == Get(m, "file_size", 0)

\* _download_manifest: the manifest of a new handle, from what
\* get_structure returned
_download_manifest(d) == IF Truthy(d) THEN d ELSE Dict({})

\* _download_file: open(file_path, 'wb') truncates, the body is written
\* block by block; raised when requests.get or iter_content raises
_download_file(p, o) ==
    IF o.kind = "error"
    THEN [raised |-> TRUE, result |-> FALSE, payload |-> p]
    ELSE [raised |-> o.broken,
          result |-> _download_complete(o.declared, o.written),
          payload |-> [exists |-> TRUE, size |-> o.written,
                       partial |-> o.broken
                                   \/ ~_download_complete(o.declared, o.written)]]

\* a variant with the size comparison inverted
Mutant_FastPath_differs(m, p) == p.exists /\ p.size # jsonl_zst_file_size(m)

\* a variant that only tests for existence
Mutant_FastPath_exists(m, p) == p.exists

\* the fast path of check_file: the file exists and has the manifest's size
FastPath(m, p) == p.exists /\ p.size = jsonl_zst_file_size(m)

\* check_file: ok is "true" or "false" as returned, "raised" when an
\* exception leaves the call
check_file(m, p, o) ==
    IF FastPath(m, p)
    THEN [ok |-> "true", path |-> FilePath, payload |-> p, http |-> 0,
          fast |-> TRUE]
    ELSE LET dl == _download_file(p, o)
         IN  [ok |-> IF dl.raised THEN "raised"
                     ELSE IF dl.result THEN "true" ELSE "false",
              path |-> IF ~dl.raised /\ dl.result THEN FilePath ELSE "",
              payload |-> dl.payload, http |-> 1, fast |-> FALSE]

\* the data property, from what check_file returned: what it returns and
\* whether a Reader is made for the file
data(r) ==
    IF r.ok = "raised" THEN [ret |-> "raised", reader |-> FALSE]
    ELSE IF r.ok # "true" THEN [ret |-> "null", reader |-> FALSE]
    ELSE [ret |-> "reader", reader |-> TRUE]

\* the ext_data property, likewise (the Reader streams with get_meta=True)
ext_data(r) ==
    IF r.ok = "raised" THEN [ret |-> "raised", reader |-> FALSE]
    ELSE IF r.ok # "true" THEN [ret |-> "null", reader |-> FALSE]
    ELSE [ret |-> "reader_meta", reader |-> TRUE]

(* ----------------------- manifest accessors ---------------------------- *)
\* a JSON array, as its set of <<index, element>> pairs
List(seq) == [t |-> "list", kv |-> {<<i, seq[i]>> : i \in DOMAIN seq}]

\* the Python values an accessor can return, tagged by their type
PyNone == [type |-> "NoneType", n |-> 0, s |-> "", b |-> FALSE, doc |-> None]
PyInt(n) == [type |-> "int", n |-> n, s |-> "", b |-> FALSE, doc |-> None]
PyStr(s) == [type |-> "str", n |-> 0, s |-> s, b |-> FALSE, doc |-> None]
PyBool(b) == [type |-> "bool", n |-> 0, s |-> "", b |-> b, doc |-> None]
\* a list or a dict
PyObj(d) == [type |-> d.t, n |-> 0, s |-> "", b |-> FALSE, doc |-> d]

\* manifest.get("stats", {})
stats(m) == Get(m, "stats", Dict({}))

\* characters: manifest.get("stats", {}).get("characters", 0)
characters(m) == PyInt(Get(stats(m), "characters", 0))

\* the keys quality_metrics looks at, in its order
QualityKeys == <<"HIGH", "MEDIUM", "LOW">>

\* quality: manifest.get("stats", {}).get("quality", {})
quality(m) == PyObj(Get(stats(m), "quality", Dict({})))

\* a variant that looks at the keys in the opposite order
Mutant_quality_metrics(m) ==
    LET q == quality(m).doc
    IN  IF Get(q, "LOW", 0) # 0 THEN PyStr("LOW")
        ELSE IF Get(q, "MEDIUM", 0) # 0 THEN PyStr("MEDIUM")
        ELSE IF Get(q, "HIGH", 0) # 0 THEN PyStr("HIGH")
        ELSE PyStr("")

\* quality_metrics (dataset/dataset.py): the first key of HIGH, MEDIUM, LOW
\* whose value is not 0, "" when there is none
quality_metrics(m) ==
    LET q == quality(m).doc
    IN  IF Get(q, "HIGH", 0) # 0 THEN PyStr("HIGH")
        ELSE IF Get(q, "MEDIUM", 0) # 0 THEN PyStr("MEDIUM")
        ELSE IF Get(q, "LOW", 0) # 0 THEN PyStr("LOW")
        ELSE PyStr("")

\* quality_metrics (speakleash/__init__.py): a boolean
quality_metrics_mono(m) ==
    LET q == quality(m).doc
    IN  PyBool(~(Get(q, "HIGH", 0) = 0 /\ Get(q, "MEDIUM", 0) = 0
                 /\ Get(q, "LOW", 0) = 0))

\* categories: manifest.get("category=95%", {})
categories(m) == PyObj(Get(m, "category=95%", Dict({})))

\* categorization: some value of categories is > 0
categorization(m) == PyBool(\E p \in categories(m).doc.kv : p[2] > 0)

\* documents, stopwords: numbers of the stats, 0 by default
documents(m) == PyInt(Get(stats(m), "documents", 0))
stopwords(m) == PyInt(Get(stats(m), "stopwords", 0))

\* a variant whose default is not the empty list
Mutant_nouns(m) == PyObj(Get(stats(m), "nouns", List(<<"n">>)))

\* nouns, verbs, symbols, punctuations, sentences, words: lists of the
\* stats, [] by default
nouns(m) == PyObj(Get(stats(m), "nouns", List(<<>>)))
verbs(m) == PyObj(Get(stats(m), "verbs", List(<<>>)))
symbols(m) == PyObj(Get(stats(m), "symbols", List(<<>>)))
punctuations(m) == PyObj(Get(stats(m), "punctuations", List(<<>>)))
sentences(m) == PyObj(Get(stats(m), "sentences", List(<<>>)))
words(m) == PyObj(Get(stats(m), "words", List(<<>>)))

\* description, license, category: strings of the manifest, "" by default
description(m) == PyStr(Get(m, "description", ""))
license(m) == PyStr(Get(m, "license", ""))
category(m) == PyStr(Get(m, "category", ""))

\* sources: manifest.get("sources", {})
sources(m) == PyObj(Get(m, "sources", Dict({})))

\* the properties of SpeakleashDataset that only read the manifest
AccessorNames ==
    {"characters", "quality_metrics", "quality_metrics_mono",
     "categorization", "categories", "quality", "documents", "stopwords",
     "nouns", "verbs", "symbols", "punctuations", "sentences", "words",
     "description", "license", "category", "sources", "jsonl_zst_file_size"}

\* what the property `name` returns for the manifest m
Accessor(name, m) ==
    CASE name = "characters" -> characters(m)
      [] name = "quality_metrics" -> quality_metrics(m)
      [] name = "quality_metrics_mono" -> quality_metrics_mono(m)
      [] name = "categorization" -> categorization(m)
      [] name = "categories" -> categories(m)
      [] name = "quality" -> quality(m)
      [] name = "documents" -> documents(m)
      [] name = "stopwords" -> stopwords(m)
      [] name = "nouns" -> nouns(m)
      [] name = "verbs" -> verbs(m)
      [] name = "symbols" -> symbols(m)
      [] name = "punctuations" -> punctuations(m)
      [] name = "sentences" -> sentences(m)
      [] name = "words" -> words(m)
      [] name = "description" -> description(m)
      [] name = "license" -> license(m)
      [] name = "category" -> category(m)
      [] name = "sources" -> sources(m)
      [] name = "jsonl_zst_file_size" -> PyInt(jsonl_zst_file_size(m))

\* samples, from what get_structure(sample_url, False) returned: data or []
samples(d) == IF Truthy(d) THEN PyObj(d) ELSE PyObj(List(<<>>))


\* the stats.quality objects: each of HIGH, MEDIUM, LOW missing, 0 or 1
Qualities ==
    {Dict({<<QualityKeys[i], f[i]>> : i \in S}) :
        S \in SUBSET (DOMAIN QualityKeys), f \in [DOMAIN QualityKeys -> {0, 1}]}

\* a manifest with every field the accessors read
FullManifest ==
    Dict({<<"file_size", 1>>, <<"description", "d">>, <<"license", "l">>,
          <<"category", "c">>, <<"category=95%", Dict({<<"c", 1>>})>>,
          <<"sources", Dict({<<"s", "u">>})>>,
          <<"stats", Dict({<<"characters", 1>>, <<"documents", 1>>,
                           <<"stopwords", 1>>, <<"nouns", List(<<"n">>)>>,
                           <<"verbs", List(<<"v">>)>>,
                           <<"symbols", List(<<"s">>)>>,
                           <<"punctuations", List(<<"p">>)>>,
                           <<"sentences", List(<<"t">>)>>,
                           <<"words", List(<<"w">>)>>,
                           <<"quality", Dict({<<"HIGH", 1>>, <<"LOW", 1>>})>>})>>})

\* the manifests a server can serve for a handle whose accessors are read
Manifests ==
    {FullManifest, Dict({<<"stats", Dict({})>>}),
     Dict({<<"category=95%", Dict({<<"c", 0>>})>>})}
    \cup {Dict({<<"stats", Dict({<<"quality", q>>})>>}) : q \in Qualities}

\* what requests.get can do for the manifest URL of such a handle; a server
\* can also serve the documents {} and null
ManifestOutcomes ==
    {o \in StructureOutcomes : ~FetchOk(o)}
    \cup {[kind |-> "response", ok |-> TRUE, text |-> json_dump(d)] :
             d \in Manifests \cup {Dict({}), None}}

(* ------------------------------ Speakleash ----------------------------- *)
\* the entries of a catalog: {"name": n} for a dataset, {"id": "x"} for an
\* entry without a name
Entries == {Dict({<<"name", n>>}) : n \in DatasetNames} \cup {Dict({<<"id", "x">>})}

\* the catalog documents: the sequences of at most MaxEntries entries
Catalogs == UNION {[1..k -> Entries] : k \in 0..MaxEntries}

\* what requests.get can do for the catalog URL
CatalogOutcomes ==
    {o \in StructureOutcomes : ~FetchOk(o)}
    \cup {[kind |-> "response", ok |-> TRUE, text |-> json_dump(List(c))] :
             c \in Catalogs}

\* what requests.get can do for the manifest URL of a listed dataset
ListedOutcomes ==
    {o \in StructureOutcomes : o.kind = "error"}
    \cup {[kind |-> "response", ok |-> TRUE, text |-> json_dump(FullManifest)]}

\* len(names) and names[i - 1] of a JSON array
ListLen(d) == Cardinality(d.kv)
ListAt(d, i) == Get(d, i, None)

\* "name" in item
HasName(item) == \E p \in item.kv : p[1] = "name"

\* SpeakleashDataset(item["name"], ...) for item in names if "name" in item,
\* from the i-th item on: the handles, each with the manifest it fetched at
\* construction, and the cache directory afterwards; mo gives the outcome
\* of the manifest fetch of each dataset, mono selects the monolithic classes
RECURSIVE construct_handles(_, _, _, _, _, _, _)
construct_handles(names, i, c, dir, t, mo, mono) ==
    IF i > ListLen(names) THEN [datasets |-> <<>>, cache |-> c]
    ELSE IF ~HasName(ListAt(names, i))
    THEN construct_handles(names, i + 1, c, dir, t, mo, mono)
    ELSE LET n == Get(ListAt(names, i), "name", "")
             r == IF mono
                  THEN get_structure_mono(c, dir, t, manifest_url(n), TRUE, mo[n])
                  ELSE get_structure(c, dir, None, t, manifest_url(n), TRUE, mo[n])
             rest == construct_handles(names, i + 1, r.cache, dir, t, mo, mono)
         IN  [datasets |-> <<[name |-> n, manifest |-> _download_manifest(r.data)]>>
                           \o rest.datasets,
              cache |-> rest.cache]

\* Speakleash.populate_datasets (core/core.py): None when names is falsy
populate_datasets(c, dir, t, o, mo) ==
    LET r == get_structure(c, dir, None, t, CatalogUrl, TRUE, o)
        h == construct_handles(r.data, 1, r.cache, dir, t, mo, FALSE)
    IN  IF Truthy(r.data)
        THEN [form |-> "modular", names |-> r.data, none |-> FALSE,
              datasets |-> h.datasets, cache |-> h.cache]
        ELSE [form |-> "modular", names |-> r.data, none |-> TRUE,
              datasets |-> <<>>, cache |-> r.cache]

\* Speakleash.__init__ (speakleash/__init__.py): datasets starts as []
Speakleash_mono(c, dir, t, o, mo) ==
    LET r == get_structure_mono(c, dir, t, CatalogUrl, TRUE, o)
        h == construct_handles(r.data, 1, r.cache, dir, t, mo, TRUE)
    IN  IF Truthy(r.data)
        THEN [form |-> "mono", names |-> r.data, none |-> FALSE,
              datasets |-> h.datasets, cache |-> h.cache]
        ELSE [form |-> "mono", names |-> r.data, none |-> FALSE,
              datasets |-> <<>>, cache |-> r.cache]

\* a variant of the scan that keeps the last match
Mutant_get(sl, name) ==
    LET hits == {k \in 1..Len(sl.datasets) : sl.datasets[k].name = name}
    IN  IF hits = {}
        THEN [op |-> "get", name |-> name, found |-> FALSE, idx |-> 0]
        ELSE [op |-> "get", name |-> name, found |-> TRUE,
              idx |-> CHOOSE k \in hits : \A j \in hits : j <= k]

\* Speakleash.get(name), of both forms (url is None in the monolithic one):
\* the scan returns at the first handle whose name is name; idx is the
\* position of the returned handle in datasets, found is FALSE for None
get(sl, name) ==
    LET hits == {k \in 1..Len(sl.datasets) : sl.datasets[k].name = name}
    IN  IF sl.none \/ hits = {}
        THEN [op |-> "get", name |-> name, found |-> FALSE, idx |-> 0]
        ELSE [op |-> "get", name |-> name, found |-> TRUE,
              idx |-> CHOOSE k \in hits : \A j \in hits : k <= j]

(* --------------------------- CategoryManager --------------------------- *)
\* the languages whose category list a CategoryManager loads
Langs == {"pl", "en"}

\* the texts of at most n characters over an alphabet; a text is a
\* sequence of characters
TextsOver(alphabet, n) == UNION {[1..k -> alphabet] : k \in 0..n}

\* str.split("\n"): the pieces between the line feeds, [""] for ""
RECURSIVE split(_)
split(text) ==
    LET feeds == {i \in DOMAIN text : text[i] = "\n"}
        first == CHOOSE i \in feeds : \A j \in feeds : i <= j
    IN  IF feeds = {} THEN <<text>>
        ELSE <<SubSeq(text, 1, first - 1)>>
             \o split(SubSeq(text, first + 1, Len(text)))

\* file.readlines(): the lines with their line feed, the last one without
\* when the text does not end in one, [] for the empty file
RECURSIVE readlines(_)
readlines(text) ==
    LET feeds == {i \in DOMAIN text : text[i] = "\n"}
        first == CHOOSE i \in feeds : \A j \in feeds : i <= j
    IN  IF text = <<>> THEN <<>>
        ELSE IF feeds = {} THEN <<text>>
        ELSE <<SubSeq(text, 1, first)>>
             \o readlines(SubSeq(text, first + 1, Len(text)))

\* str.strip(): without the leading and trailing whitespace
strip(line) ==
    LET keep == {i \in DOMAIN line : line[i] \notin {" ", "\n"}}
    IN  IF keep = {} THEN <<>>
        ELSE SubSeq(line, CHOOSE i \in keep : \A j \in keep : i <= j,
                          CHOOSE i \in keep : \A j \in keep : j <= i)

\* str.upper(), on the letters a and b
upper(name) ==
    [i \in DOMAIN name |-> CASE name[i] = "a" -> "A"
                             [] name[i] = "b" -> "B"
                             [] OTHER -> name[i]]

\* the file {lang}_categories.txt: absent, or a text
NoCategoriesFile == [exists |-> FALSE, text |-> <<>>]

\* a variant that keeps the lines as they are read
Mutant_get_categories_from_file(file) == readlines(file.text)

\* get_categories_from_file: [line.strip() for line in readlines()]
get_categories_from_file(file) ==
    [i \in DOMAIN readlines(file.text) |-> strip(readlines(file.text)[i])]

\* what requests.get can do for a category URL: raise a RequestException,
\* or return a response with a status (ok = 2xx) and a text
CategoryOutcomesOver(texts) ==
    {[kind |-> "error", ok |-> FALSE, text |-> <<>>]}
    \cup [kind : {"response"}, ok : BOOLEAN, text : texts]

\* get_categories_from_url: response.text.split("\n"), [] on any failure
get_categories_from_url(o) ==
    IF o.kind = "response" /\ o.ok THEN split(o.text) ELSE <<>>

\* write_categories_to_file: each category followed by a line feed
RECURSIVE write_categories_to_file(_)
write_categories_to_file(names) ==
    IF names = <<>> THEN <<>>
    ELSE Head(names) \o <<"\n">> \o write_categories_to_file(Tail(names))

\* a variant that fetches although the file exists
Mutant_get_categories_from_file_or_url(file, url, o) ==
    [categories |-> get_categories_from_url(o),
     file |-> [exists |-> TRUE,
               text |-> write_categories_to_file(get_categories_from_url(o))],
     http |-> 1]

\* __get_categories_from_file_or_url (category_manager.py): url says
\* whether the configured URL is non-empty; the list, the file afterwards
\* and the number of HTTP requests
get_categories_from_file_or_url(file, url, o) ==
    IF file.exists
    THEN [categories |-> get_categories_from_file(file), file |-> file,
          http |-> 0]
    ELSE IF url
    THEN [categories |-> get_categories_from_url(o),
          file |-> [exists |-> TRUE,
                    text |-> write_categories_to_file(get_categories_from_url(o))],
          http |-> 1]
    ELSE [categories |-> <<>>, file |-> file, http |-> 0]

\* __categories (speakleash/__init__.py): the URL is fixed, and a failed
\* fetch leaves data = "", which splits into [""]
categories_mono(file, o) ==
    IF file.exists
    THEN [categories |-> get_categories_from_file(file), file |-> file,
          http |-> 0]
    ELSE LET text == IF o.kind = "response" /\ o.ok THEN o.text ELSE <<>>
         IN  [categories |-> split(text),
              file |-> [exists |-> TRUE,
                        text |-> write_categories_to_file(split(text))],
              http |-> 1]

\* list.index(name): the first position of name, 0 when list.index raises
\* ValueError
index(names, name) ==
    IF \E i \in DOMAIN names : names[i] = name
    THEN CHOOSE i \in DOMAIN names :
            /\ names[i] = name
            /\ \A j \in DOMAIN names : names[j] = name => i <= j
    ELSE 0

\* __get_pl_category (category_manager.py) hands back None or a name: the
\* lookup and the subscript are both inside the try, whose bare except
\* swallows every exception
get_pl_category(mgr, category_name, lang) ==
    IF lang = "en"
    THEN LET i == index(mgr.categories_en, category_name)
         IN  IF i # 0 /\ i <= Len(mgr.categories_pl)
             THEN [raised |-> FALSE, some |-> TRUE,
                   name |-> mgr.categories_pl[i]]
             ELSE [raised |-> FALSE, some |-> FALSE, name |-> <<>>]
    ELSE [raised |-> FALSE, some |-> FALSE, name |-> <<>>]

\* __get_pl_category (speakleash/__init__.py): only the lookup is inside
\* the try; self.categories_pl[index] after it raises IndexError when the
\* Polish list has no such position
get_pl_category_mono(mgr, name, lang) ==
    IF lang = "en"
    THEN LET i == index(mgr.categories_en, name)
         IN  IF i = 0
             THEN [raised |-> FALSE, some |-> FALSE, name |-> <<>>]
             ELSE IF i <= Len(mgr.categories_pl)
             THEN [raised |-> FALSE, some |-> TRUE,
                   name |-> mgr.categories_pl[i]]
             ELSE [raised |-> TRUE, some |-> FALSE, name |-> <<>>]
    ELSE [raised |-> FALSE, some |-> FALSE, name |-> <<>>]

\* the inner loop of check_category: some key of meta.get("category", {})
\* equals the Polish name after upper() and its confidence is >= cf
MetaMatches(meta, pl_category, cf) ==
    \E kv \in meta.category :
       upper(kv[1]) = upper(pl_category) /\ kv[2] >= cf

\* the outer loop of check_category (category_manager.py), category by
\* category; `if pl_category:` skips None and the empty name
RECURSIVE check_loop(_, _, _, _, _)
check_loop(mgr, meta, names, cf, lang) ==
    IF names = <<>> THEN [raised |-> FALSE, ret |-> FALSE]
    ELSE LET pl_category == IF lang # "pl"
                            THEN get_pl_category(mgr, Head(names), lang)
                            ELSE [raised |-> FALSE, some |-> TRUE,
                                  name |-> Head(names)]
         IN  IF pl_category.some /\ pl_category.name # <<>>
                /\ MetaMatches(meta, pl_category.name, cf)
             THEN [raised |-> FALSE, ret |-> TRUE]
             ELSE check_loop(mgr, meta, Tail(names), cf, lang)

\* check_category (category_manager.py)
check_category(mgr, meta, names, cf, lang) ==
    IF ~meta.truthy \/ names = <<>>
    THEN [raised |-> FALSE, ret |-> FALSE]
    ELSE check_loop(mgr, meta, names, cf, lang)

\* the outer loop of check_category (speakleash/__init__.py); an exception
\* of __get_pl_category leaves the loop and the call
RECURSIVE check_loop_mono(_, _, _, _, _)
check_loop_mono(mgr, meta, names, cf, lang) ==
    IF names = <<>> THEN [raised |-> FALSE, ret |-> FALSE]
    ELSE LET category_pl == IF lang # "pl"
                            THEN get_pl_category_mono(mgr, Head(names), lang)
                            ELSE [raised |-> FALSE, some |-> TRUE,
                                  name |-> Head(names)]
         IN  IF category_pl.raised
             THEN [raised |-> TRUE, ret |-> FALSE]
             ELSE IF category_pl.some /\ category_pl.name # <<>>
                     /\ MetaMatches(meta, category_pl.name, cf)
             THEN [raised |-> FALSE, ret |-> TRUE]
             ELSE check_loop_mono(mgr, meta, Tail(names), cf, lang)

\* check_category (speakleash/__init__.py)
check_category_mono(mgr, meta, names, cf, lang) ==
    IF ~meta.truthy THEN [raised |-> FALSE, ret |-> FALSE]
    ELSE IF Len(names) = 0 THEN [raised |-> FALSE, ret |-> FALSE]
    ELSE check_loop_mono(mgr, meta, names, cf, lang)

(* --------------------------- observations ------------------------------ *)
NoTs == [date |-> -1, hour |-> -1]

NoHist == [has |-> FALSE, ts |-> NoTs, ret |-> None, stored |-> FALSE]

Obs0 ==
    [op |-> "none", url |-> "", hourly |-> FALSE, ts |-> NoTs, ret |-> None,
     http |-> 0, hit |-> FALSE, fetch |-> "none", served |-> None,
     prev |-> "none"]

\* ts2 is the bucket that follows ts1, at the same granularity
NextBucket(ts1, ts2) ==
    /\ ts1 # ts2
    /\ \E h \in BOOLEAN, t \in 0..(MaxHour - 1) :
          ts1 = get_timestamp(h, t) /\ ts2 = get_timestamp(h, t + 1)

\* how the bucket ts of a call relates to the previous call on the URL
PrevRelation(url, ts) ==
    IF ~hist[url].has THEN "none"
    ELSE IF hist[url].ts = ts THEN "same"
    ELSE IF NextBucket(hist[url].ts, ts) THEN "next"
    ELSE "other"

\* the observation of a get_structure call with result r
ObsStructure(op, url, hourly, o, r) ==
    [op |-> op, url |-> url, hourly |-> hourly,
     ts |-> get_timestamp(hourly, now), ret |-> r.data, http |-> r.http,
     hit |-> r.hit,
     fetch |-> IF r.hit THEN "none" ELSE IF FetchOk(o) THEN "ok" ELSE "failed",
     served |-> IF ~r.hit /\ FetchOk(o) THEN json_load(o.text).doc ELSE None,
     prev |-> PrevRelation(url, get_timestamp(hourly, now))]

\* the record of this call, for the next call on the same URL
HistOf(url, hourly, r) ==
    [has |-> TRUE, ts |-> get_timestamp(hourly, now), ret |-> r.data,
     stored |-> exists(r.cache, <<generate_hash(url), get_timestamp(hourly, now)>>)]

Call0 ==
    [op |-> "none", ok |-> "none", path |-> "", ret |-> "none", http |-> 0,
     fast |-> FALSE, pre |-> NoPayload, kind |-> "none", status |-> FALSE,
     declared |-> 0, written |-> 0, broken |-> FALSE, reader |-> FALSE]

\* the observation of a check_file call with result r, made by op; ret is
\* what op returns and reader whether a Reader was opened on the file
ObsCall(op, o, r) ==
    [op |-> op, ok |-> r.ok, path |-> r.path,
     ret |-> IF op = "data" THEN data(r).ret
             ELSE IF op = "ext_data" THEN ext_data(r).ret
             ELSE r.ok,
     http |-> r.http, fast |-> r.fast, pre |-> payload,
     kind |-> IF r.fast THEN "none" ELSE o.kind,
     status |-> ~r.fast /\ o.ok,
     declared |-> IF r.fast THEN 0 ELSE o.declared,
     written |-> IF r.fast THEN 0 ELSE o.written,
     broken |-> ~r.fast /\ o.broken,
     reader |-> IF op = "data" THEN data(r).reader
                ELSE IF op = "ext_data" THEN ext_data(r).reader
                ELSE FALSE]

\* no accessor was read yet
Acc0 == [op |-> "none", ret |-> PyNone]

\* no Speakleash instance yet
NoSpeakleash == [form |-> "none", names |-> None, none |-> TRUE, datasets |-> <<>>]

\* no Speakleash.get call yet
Got0 == [op |-> "none", name |-> "", found |-> FALSE, idx |-> 0]

\* the side-by-side run before its first call
Twin0 ==
    [op |-> "none", cache |-> [f \in Paths |-> NoFile], ret |-> None,
     http |-> 0, ret_modular |-> None, http_modular |-> 0, corrupt |-> FALSE]

\* the processes that call get_structure concurrently
Procs == {1, 2}

\* a process before its call: self.data = None; linked says that the file
\* the process has open for writing is still the one at the cache path
Proc0 ==
    [p \in Procs |-> [pc |-> "start", data |-> None, ret |-> None,
                      http |-> 0, truncated |-> FALSE, linked |-> FALSE]]

\* no CategoryManager yet; pre and was_failed describe the temp directory
\* before the construction, failed says per language that the file was
\* written by a construction whose fetch failed
NoCategoryManager ==
    [form |-> "none", categories_pl |-> <<>>, categories_en |-> <<>>,
     http |-> [l \in Langs |-> 0],
     pre |-> [l \in Langs |-> NoCategoriesFile],
     was_failed |-> [l \in Langs |-> FALSE],
     failed |-> [l \in Langs |-> FALSE]]

\* no check_category call yet
Chk0 ==
    [op |-> "none", meta |-> [truthy |-> FALSE, category |-> {}],
     categories |-> <<>>, cf |-> 0, lang |-> "", raised |-> FALSE,
     ret |-> FALSE]

(* ------------------------------ actions -------------------------------- *)
Init ==
    /\ replicate_dir \in BOOLEAN
    /\ cache = [f \in Paths |-> NoFile]
    /\ self_data = None
    /\ now = 0
    /\ manifest = None
    /\ payload = NoPayload
    /\ hist = [u \in URLS |-> NoHist]
    /\ last = Obs0
    /\ call = Call0
    /\ acc = Acc0
    /\ speakleash = NoSpeakleash
    /\ got = Got0
    /\ twin = Twin0
    /\ proc = Proc0
    /\ temp_dir = [l \in Langs |-> NoCategoriesFile]
    /\ category_urls = [l \in Langs |-> TRUE]
    /\ cm = NoCategoryManager
    /\ chk = Chk0

\* StructureDownloader.__init__: a new instance, self.data = None
StructureDownloader_init ==
    /\ self_data # None
    /\ self_data' = None
    /\ UNCHANGED <<replicate_dir, cache, now, manifest, payload, hist, last,
                   call>>
    /\ UNCHANGED ext
    /\ UNCHANGED category_vars

\* a get_structure call on the current instance of the modular class
GetStructure(url, hourly, o) ==
    LET r == get_structure(cache, replicate_dir, self_data, now, url, hourly, o)
    IN  /\ cache' = r.cache
        /\ self_data' = r.data
        /\ hist' = [hist EXCEPT ![url] = HistOf(url, hourly, r)]
        /\ last' = ObsStructure("get_structure", url, hourly, o, r)
        /\ UNCHANGED <<replicate_dir, now, manifest, payload, call>>
        /\ UNCHANGED ext
        /\ UNCHANGED category_vars

\* a get_structure call on the current instance that misses and whose
\* json.dump raises after open(file, 'w') has created the file (the disk is
\* full): write_data_to_file swallows the error and leaves a file that is
\* not JSON
GetStructureCutShort(url, hourly, o) ==
    LET file == <<generate_hash(url), get_timestamp(hourly, now)>>
        d == get_data_from_url(self_data, o)
        r == [data |-> d,
              cache |-> [_remove_old_files(cache, url) EXCEPT ![file] = Garbage],
              http |-> 1, hit |-> FALSE]
    IN  /\ replicate_dir
        /\ ~exists(cache, file)
        /\ cache' = r.cache
        /\ self_data' = r.data
        /\ hist' = [hist EXCEPT ![url] = HistOf(url, hourly, r)]
        /\ last' = ObsStructure("cut_short", url, hourly, o, r)
        /\ UNCHANGED <<replicate_dir, now, manifest, payload, call>>
        /\ UNCHANGED ext
        /\ UNCHANGED category_vars

\* a get_structure call of the monolithic class
GetStructureMono(url, hourly, o) ==
    LET r == get_structure_mono(cache, replicate_dir, now, url, hourly, o)
    IN  /\ cache' = r.cache
        /\ hist' = [hist EXCEPT ![url] = HistOf(url, hourly, r)]
        /\ last' = ObsStructure("get_structure_mono", url, hourly, o, r)
        /\ UNCHANGED <<replicate_dir, self_data, now, manifest, payload, call>>
        /\ UNCHANGED ext
        /\ UNCHANGED category_vars

\* the clock moves to the next hour
Tick ==
    /\ now < MaxHour
    /\ now' = now + 1
    /\ UNCHANGED <<replicate_dir, cache, self_data, manifest, payload, hist,
                   last, call>>
    /\ UNCHANGED ext
    /\ UNCHANGED category_vars

\* SpeakleashDataset.__init__: the manifest is fetched with a new
\* StructureDownloader (hourly = True)
SpeakleashDataset_init(o) ==
    LET r == get_structure(cache, replicate_dir, None, now, ManifestUrl, TRUE, o)
    IN  /\ manifest = None
        /\ manifest' = _download_manifest(r.data)
        /\ cache' = r.cache
        /\ hist' = [hist EXCEPT ![ManifestUrl] = HistOf(ManifestUrl, TRUE, r)]
        /\ last' = ObsStructure("get_structure", ManifestUrl, TRUE, o, r)
        /\ UNCHANGED <<replicate_dir, self_data, now, payload, call>>
        /\ UNCHANGED ext
        /\ UNCHANGED category_vars

\* check_file: the directory is created first
CheckFile(o) ==
    LET r == check_file(manifest, payload, o)
    IN  /\ manifest # None
        /\ replicate_dir' = TRUE
        /\ payload' = r.payload
        /\ call' = ObsCall("check_file", o, r)
        /\ UNCHANGED <<cache, self_data, now, manifest, hist, last>>
        /\ UNCHANGED ext
        /\ UNCHANGED category_vars

\* the data property: check_file, then a Reader on the file
Data(o) ==
    LET r == check_file(manifest, payload, o)
    IN  /\ manifest # None
        /\ replicate_dir' = TRUE
        /\ payload' = r.payload
        /\ call' = ObsCall("data", o, r)
        /\ UNCHANGED <<cache, self_data, now, manifest, hist, last>>
        /\ UNCHANGED ext
        /\ UNCHANGED category_vars

\* the ext_data property: check_file, then a Reader with get_meta=True
ExtData(o) ==
    LET r == check_file(manifest, payload, o)
    IN  /\ manifest # None
        /\ replicate_dir' = TRUE
        /\ payload' = r.payload
        /\ call' = ObsCall("ext_data", o, r)
        /\ UNCHANGED <<cache, self_data, now, manifest, hist, last>>
        /\ UNCHANGED ext
        /\ UNCHANGED category_vars

\* reading a property of the handle that only looks at the manifest
Access(name) ==
    /\ manifest # None
    /\ acc' = [op |-> name, ret |-> Accessor(name, manifest)]
    /\ UNCHANGED <<replicate_dir, cache, self_data, now, manifest, payload,
                   hist, last, call, speakleash, got, twin, proc>>
    /\ UNCHANGED category_vars

\* a variant of samples that also reloads the manifest from what it fetched
Mutant_Samples(o) ==
    LET r == get_structure(cache, replicate_dir, None, now, SampleUrl, FALSE, o)
    IN  /\ manifest # None
        /\ cache' = r.cache
        /\ manifest' = _download_manifest(r.data)
        /\ acc' = [op |-> "samples", ret |-> samples(r.data)]
        /\ hist' = [hist EXCEPT ![SampleUrl] = HistOf(SampleUrl, FALSE, r)]
        /\ last' = ObsStructure("get_structure", SampleUrl, FALSE, o, r)
        /\ UNCHANGED <<replicate_dir, self_data, now, payload, call,
                       speakleash, got, twin, proc>>
        /\ UNCHANGED category_vars

\* the samples property: get_structure(sample_url, False) with a new
\* StructureDownloader
Samples(o) ==
    LET r == get_structure(cache, replicate_dir, None, now, SampleUrl, FALSE, o)
    IN  /\ manifest # None
        /\ cache' = r.cache
        /\ acc' = [op |-> "samples", ret |-> samples(r.data)]
        /\ hist' = [hist EXCEPT ![SampleUrl] = HistOf(SampleUrl, FALSE, r)]
        /\ last' = ObsStructure("get_structure", SampleUrl, FALSE, o, r)
        /\ UNCHANGED <<replicate_dir, self_data, now, manifest, payload, call,
                       speakleash, got, twin, proc>>
        /\ UNCHANGED category_vars

\* Speakleash.__init__ (core/core.py): the catalog is fetched and a handle
\* is constructed for each named entry
Speakleash_init(o, mo) ==
    LET r == populate_datasets(cache, replicate_dir, now, o, mo)
    IN  /\ speakleash.form = "none"
        /\ speakleash' = [form |-> r.form, names |-> r.names, none |-> r.none,
                          datasets |-> r.datasets]
        /\ cache' = r.cache
        /\ UNCHANGED <<replicate_dir, self_data, now, manifest, payload, hist,
                       last, call, acc, got, twin, proc>>
        /\ UNCHANGED category_vars

\* Speakleash.__init__ (speakleash/__init__.py)
Speakleash_mono_init(o, mo) ==
    LET r == Speakleash_mono(cache, replicate_dir, now, o, mo)
    IN  /\ speakleash.form = "none"
        /\ speakleash' = [form |-> r.form, names |-> r.names, none |-> r.none,
                          datasets |-> r.datasets]
        /\ cache' = r.cache
        /\ UNCHANGED <<replicate_dir, self_data, now, manifest, payload, hist,
                       last, call, acc, got, twin, proc>>
        /\ UNCHANGED category_vars

\* Speakleash.get(name) on the instance
Speakleash_get(name) ==
    /\ speakleash.form # "none"
    /\ got' = get(speakleash, name)
    /\ UNCHANGED <<replicate_dir, cache, self_data, now, manifest, payload,
                   hist, last, call, acc, speakleash, twin, proc>>
    /\ UNCHANGED category_vars

\* the same get_structure call made side by side: by a new instance of the
\* modular class on the directory `cache` and by the monolithic class on
\* the directory twin.cache, with the same clock and the same response
BothGetStructure(url, hourly, o) ==
    LET r == get_structure(cache, replicate_dir, None, now, url, hourly, o)
        m == get_structure_mono(twin.cache, replicate_dir, now, url, hourly, o)
    IN  /\ cache' = r.cache
        /\ twin' = [op |-> "both", cache |-> m.cache, ret |-> m.data,
                    http |-> m.http, ret_modular |-> r.data,
                    http_modular |-> r.http,
                    corrupt |-> \E f \in Paths : cache[f] = Garbage]
        /\ UNCHANGED <<replicate_dir, self_data, now, manifest, payload, hist,
                       last, call, acc, speakleash, got, proc>>
        /\ UNCHANGED category_vars

\* the cache path of the concurrent calls: get_structure(ManifestUrl) in
\* the current hour
RaceFile == <<generate_hash(ManifestUrl), get_timestamp(TRUE, now)>>

\* get_structure of process p, step by step: os.path.exists(file)
Step_exists(p) ==
    /\ proc[p].pc = "start"
    /\ proc' = [proc EXCEPT ![p].pc = IF exists(cache, RaceFile)
                                      THEN "load" ELSE "remove"]
    /\ UNCHANGED <<replicate_dir, cache, self_data, now, manifest, payload,
                   hist, last, call, acc, speakleash, got, twin>>
    /\ UNCHANGED category_vars

\* get_data_from_file: open(file, 'r') and json.load, then return self.data
Step_get_data_from_file(p) ==
    LET d == get_data_from_file(proc[p].data, cache, RaceFile)
    IN  /\ proc[p].pc = "load"
        /\ proc' = [proc EXCEPT ![p].pc = "done", ![p].data = d, ![p].ret = d,
                                ![p].truncated = (cache[RaceFile] = Garbage)]
        /\ UNCHANGED <<replicate_dir, cache, self_data, now, manifest, payload,
                       hist, last, call, acc, speakleash, got, twin>>
        /\ UNCHANGED category_vars

\* _remove_old_files: a file another process has open is unlinked
Step_remove_old_files(p) ==
    /\ proc[p].pc = "remove"
    /\ cache' = _remove_old_files(cache, ManifestUrl)
    /\ proc' = [q \in Procs |->
                  IF q = p THEN [proc[q] EXCEPT !.pc = "fetch"]
                  ELSE [proc[q] EXCEPT !.linked = FALSE]]
    /\ UNCHANGED <<replicate_dir, self_data, now, manifest, payload, hist,
                   last, call, acc, speakleash, got, twin>>
    /\ UNCHANGED category_vars

\* get_data_from_url
Step_get_data_from_url(p, o) ==
    /\ proc[p].pc = "fetch"
    /\ proc' = [proc EXCEPT ![p].pc = "open",
                            ![p].data = get_data_from_url(proc[p].data, o),
                            ![p].http = 1]
    /\ UNCHANGED <<replicate_dir, cache, self_data, now, manifest, payload,
                   hist, last, call, acc, speakleash, got, twin>>
    /\ UNCHANGED category_vars

\* write_data_to_file: open(file, 'w') creates or truncates the file
Step_open(p) ==
    /\ proc[p].pc = "open"
    /\ replicate_dir
    /\ cache' = [cache EXCEPT ![RaceFile] = Garbage]
    /\ proc' = [proc EXCEPT ![p].pc = "dump", ![p].linked = TRUE]
    /\ UNCHANGED <<replicate_dir, self_data, now, manifest, payload, hist,
                   last, call, acc, speakleash, got, twin>>
    /\ UNCHANGED category_vars

\* write_data_to_file: json.dump and close, then return self.data; the text
\* reaches the cache path unless the file was unlinked meanwhile
Step_json_dump(p) ==
    /\ proc[p].pc = "dump"
    /\ cache' = IF proc[p].linked
                THEN [cache EXCEPT ![RaceFile] = json_dump(proc[p].data)]
                ELSE cache
    /\ proc' = [proc EXCEPT ![p].pc = "done", ![p].ret = proc[p].data,
                            ![p].linked = FALSE]
    /\ UNCHANGED <<replicate_dir, self_data, now, manifest, payload, hist,
                   last, call, acc, speakleash, got, twin>>
    /\ UNCHANGED category_vars

\* CategoryManager.__init__ (category_manager.py): create_dirs, then the
\* Polish and the English list; opl and oen are what requests.get does for
\* the two URLs if it is called
CategoryManager_init(opl, oen) ==
    LET pl == get_categories_from_file_or_url(temp_dir["pl"], category_urls["pl"], opl)
        en == get_categories_from_file_or_url(temp_dir["en"], category_urls["en"], oen)
    IN  /\ temp_dir' = [l \in Langs |-> IF l = "pl" THEN pl.file ELSE en.file]
        /\ cm' = [form |-> "modular", categories_pl |-> pl.categories,
                  categories_en |-> en.categories,
                  http |-> [l \in Langs |-> IF l = "pl" THEN pl.http ELSE en.http],
                  pre |-> temp_dir,
                  was_failed |-> cm.failed,
                  failed |-> [l \in Langs |->
                                IF l = "pl"
                                THEN (IF pl.http = 1 THEN ~(opl.kind = "response" /\ opl.ok)
                                      ELSE cm.failed[l])
                                ELSE (IF en.http = 1 THEN ~(oen.kind = "response" /\ oen.ok)
                                      ELSE cm.failed[l])]]
        /\ UNCHANGED <<replicate_dir, cache, self_data, now, manifest, payload,
                       hist, last, call, acc, speakleash, got, twin, proc,
                       category_urls>>
        /\ chk' = Chk0

\* CategoryManager.__init__ (speakleash/__init__.py)
CategoryManager_mono_init(opl, oen) ==
    LET pl == categories_mono(temp_dir["pl"], opl)
        en == categories_mono(temp_dir["en"], oen)
    IN  /\ temp_dir' = [l \in Langs |-> IF l = "pl" THEN pl.file ELSE en.file]
        /\ cm' = [form |-> "mono", categories_pl |-> pl.categories,
                  categories_en |-> en.categories,
                  http |-> [l \in Langs |-> IF l = "pl" THEN pl.http ELSE en.http],
                  pre |-> temp_dir,
                  was_failed |-> cm.failed,
                  failed |-> [l \in Langs |->
                                IF l = "pl"
                                THEN (IF pl.http = 1 THEN ~(opl.kind = "response" /\ opl.ok)
                                      ELSE cm.failed[l])
                                ELSE (IF en.http = 1 THEN ~(oen.kind = "response" /\ oen.ok)
                                      ELSE cm.failed[l])]]
        /\ UNCHANGED <<replicate_dir, cache, self_data, now, manifest, payload,
                       hist, last, call, acc, speakleash, got, twin, proc,
                       category_urls>>
        /\ chk' = Chk0

\* check_category(meta, categories, cf, lang) on the modular instance; the
\* call changes nothing of the instance, so one call per instance is
\* observed
CheckCategory(meta, names, cf, lang) ==
    /\ cm.form = "modular"
    /\ chk.op = "none"
    /\ chk' = [op |-> "check_category", meta |-> meta, categories |-> names,
               cf |-> cf, lang |-> lang,
               raised |-> check_category(cm, meta, names, cf, lang).raised,
               ret |-> check_category(cm, meta, names, cf, lang).ret]
    /\ UNCHANGED <<replicate_dir, cache, self_data, now, manifest, payload,
                   hist, last, call, acc, speakleash, got, twin, proc,
                   temp_dir, category_urls, cm>>

\* check_category(meta, categories, cf, lang) on the monolithic instance
CheckCategoryMono(meta, names, cf, lang) ==
    /\ cm.form = "mono"
    /\ chk.op = "none"
    /\ chk' = [op |-> "check_category", meta |-> meta, categories |-> names,
               cf |-> cf, lang |-> lang,
               raised |-> check_category_mono(cm, meta, names, cf, lang).raised,
               ret |-> check_category_mono(cm, meta, names, cf, lang).ret]
    /\ UNCHANGED <<replicate_dir, cache, self_data, now, manifest, payload,
                   hist, last, call, acc, speakleash, got, twin, proc,
                   temp_dir, category_urls, cm>>

(* ------------------------- the structure cache ------------------------- *)
\* the operations that are get_structure calls
StructureOps == {"get_structure", "get_structure_mono"}

\* the path of the cache file of the last call
LastFile == <<generate_hash(last.url), last.ts>>

C3_Original ==
    (last.op = "get_structure" /\ ~last.hit /\ last.fetch = "failed")
    => last.ret = None

\* C4 as stated: after a get_structure(u) call that missed the cache and
\* whose fetch failed, the cache file of (u, current bucket) holds null, and
\* a later call in that bucket returns null without an HTTP request.
C4_Original ==
    [][/\ (last' # last /\ ~last'.hit /\ last'.fetch = "failed")
           => cache'[<<generate_hash(last'.url), last'.ts>>] = json_dump(None)
       /\ (last' # last /\ last.fetch = "failed" /\ last'.url = last.url
             /\ last'.ts = last.ts)
           => (last'.ret = None /\ last'.http = 0)]_vars

(* ----------------------------- the payload ----------------------------- *)
\* the operations that run check_file
CheckOps == {"check_file", "data", "ext_data"}

\* C5 as stated: whenever check_file returns (true, path), the file exists
\* and its size equals the file_size of the manifest, on the fast path and
\* after a download alike.
C5_Original ==
    (call.op \in CheckOps /\ call.ok = "true")
    => (payload.exists /\ payload.size = jsonl_zst_file_size(manifest))

\* C5 amended: whenever check_file returns (true, path), path is the payload
\* path and the file exists; on the fast path its size equals the file_size
\* of the manifest; after a download its size is the number of bytes written,
\* which equals the declared content length whenever that is not 0 (it is
\* not compared with the manifest's file_size).
C5_TrueMeansFilePresent ==
    (call.op \in CheckOps /\ call.ok = "true")
    => /\ call.path = FilePath
       /\ payload.exists
       /\ call.fast => payload.size = jsonl_zst_file_size(manifest)
       /\ ~call.fast => /\ payload.size = call.written
                        /\ call.declared # 0 => payload.size = call.declared

\* C5 witness: check_file returned true after a download that declared its
\* length, with a file whose size is not the manifest's file_size
C5_Witness ==
    /\ call.op \in CheckOps
    /\ call.ok = "true"
    /\ ~call.fast
    /\ call.declared > 0
    /\ payload.exists
    /\ payload.size # jsonl_zst_file_size(manifest)

\* C6: when the local file exists with the size the manifest records,
\* check_file returns (true, path of that file), issues no HTTP request and
\* leaves the file as it was.
C6_VerifiedFileIsFastPath ==
    (call.op \in CheckOps /\ call.pre.exists
       /\ call.pre.size = jsonl_zst_file_size(manifest))
    => /\ call.ok = "true"
       /\ call.path = FilePath
       /\ call.http = 0
       /\ payload = call.pre

\* C6 witness: check_file accepted a non-empty file of the manifest's size
C6_Witness ==
    /\ call.op = "check_file"
    /\ call.pre.exists
    /\ call.pre.size > 0
    /\ call.pre.size = jsonl_zst_file_size(manifest)
    /\ call.ok = "true"
    /\ call.http = 0

\* C7: when the local file is absent, check_file issues exactly one HTTP
\* GET, and when the body arrives in full (bytes written = declared content
\* length) it returns (true, path) with the file present.
C7_AbsentFileOneDownload ==
    (call.op \in CheckOps /\ ~call.pre.exists)
    => /\ call.http = 1
       /\ (call.kind = "response" /\ ~call.broken
             /\ call.written = call.declared)
          => (call.ok = "true" /\ call.path = FilePath /\ payload.exists)

\* C7 witness: a full transfer into an absent file
C7_Witness ==
    /\ call.op \in CheckOps
    /\ ~call.pre.exists
    /\ call.kind = "response"
    /\ ~call.broken
    /\ call.declared > 0
    /\ call.written = call.declared
    /\ call.ok = "true"
    /\ payload.exists

\* C8: when a download ends with bytes written different from a declared
\* content length greater than 0, check_file returns (false, ""), and data
\* and ext_data return null and make no Reader.
C8_SizeMismatchFails ==
    (call.op \in CheckOps /\ ~call.fast /\ call.kind = "response"
       /\ ~call.broken /\ call.declared > 0 /\ call.written # call.declared)
    => /\ call.ok = "false"
       /\ call.path = ""
       /\ call.op \in {"data", "ext_data"}
            => (call.ret = "null" /\ ~call.reader)

\* C8 witness: data got more bytes than declared, and returned null
C8_Witness ==
    /\ call.op = "data"
    /\ call.kind = "response"
    /\ ~call.broken
    /\ call.declared > 0
    /\ call.written > call.declared
    /\ call.ret = "null"

\* C9 as stated: when the payload download meets a network failure (the GET
\* raises, the stream breaks, or the status is not 2xx), no exception leaves
\* check_file, data or ext_data: check_file returns (false, "") and data and
\* ext_data return null.
C9_Original ==
    (call.op \in CheckOps /\ ~call.fast
       /\ (call.kind = "error" \/ call.broken
             \/ (call.kind = "response" /\ ~call.status)))
    => /\ call.ok = "false"
       /\ call.path = ""
       /\ call.op \in {"data", "ext_data"} => call.ret = "null"

\* C10 as stated: a check_file call that finds a partial file left by a
\* failed or interrupted download never takes the fast path: it issues a
\* download, whose body replaces the file from the first byte.
C10_Original ==
    (call.op \in CheckOps /\ call.pre.exists /\ call.pre.partial)
    => /\ ~call.fast
       /\ call.http = 1
       /\ call.kind = "response" => payload.size = call.written

\* C10 amended: a check_file call that finds a partial file left by a failed
\* or interrupted download, of a size other than the manifest's file_size
\* (0 when the manifest has none), does not take the fast path: it issues a
\* download, whose body replaces the file from the first byte.  A partial
\* file of exactly the manifest's file_size is accepted by the fast path.
C10_PartialFileRedownloaded ==
    /\ (call.op \in CheckOps /\ call.pre.exists /\ call.pre.partial
          /\ call.pre.size # jsonl_zst_file_size(manifest))
       => /\ ~call.fast
          /\ call.http = 1
          /\ call.kind = "response" => payload.size = call.written
    /\ (call.op \in CheckOps /\ call.pre.exists /\ call.pre.partial
          /\ call.pre.size = jsonl_zst_file_size(manifest))
       => (call.fast /\ call.ok = "true" /\ payload = call.pre)

\* C10 witness: a partial file was replaced by a complete download
C10_Witness ==
    /\ call.op \in CheckOps
    /\ call.pre.exists
    /\ call.pre.partial
    /\ call.pre.size # jsonl_zst_file_size(manifest)
    /\ ~call.fast
    /\ call.kind = "response"
    /\ call.ok = "true"
    /\ ~payload.partial

(* ---------------------- more on the structure cache -------------------- *)
\* the cache files of a URL, of every bucket and granularity
FilesOf(c, url) == {f \in Paths : f[1] = generate_hash(url) /\ exists(c, f)}

\* C17: after any sequence of get_structure calls by one process, of any
\* URLs, hourly flags and buckets, at most one cache file exists per URL.
C17_OneFilePerUrl ==
    \A u \in URLS : Cardinality(FilesOf(cache, u)) <= 1

\* C17 witness: a call that missed in another bucket than the previous call
\* on the URL stored its file, the only file of that URL
C17_Witness ==
    /\ last.op \in StructureOps
    /\ last.prev \in {"next", "other"}
    /\ ~last.hit
    /\ FilesOf(cache, last.url) = {LastFile}

\* ts1 and ts2 are of different granularity (one hourly, one daily)
OtherGranularity(ts1, ts2) == (ts1.hour = -1) # (ts2.hour = -1)

\* C20: a get_structure(u) call whose hourly flag differs from that of the
\* previous get_structure(u) call misses the cache and issues an HTTP
\* request, and leaves no cache file of the other granularity for u; so
\* calls that alternate hourly=true and hourly=false within one hour each
\* miss and each fetch.
C20_MissDeletesOtherGranularity ==
    [][\A u \in URLS :
          (last' # last /\ last'.url = u /\ hist[u].has
             /\ OtherGranularity(hist[u].ts, last'.ts))
          => /\ ~last'.hit
             /\ last'.http = 1
             /\ ~exists(cache', <<generate_hash(u), hist[u].ts>>)
             /\ \A f \in FilesOf(cache', u) : f[2] = last'.ts]_vars

\* C20 witness: within the first hour, a call of the other granularity than
\* the previous call on the URL missed and replaced that call's file
C20_Witness ==
    /\ now = 0
    /\ last.op \in StructureOps
    /\ last.prev = "other"
    /\ ~last.hit
    /\ last.http = 1
    /\ FilesOf(cache, last.url) = {LastFile}

\* C18: for a handle whose manifest records no file_size, when every
\* download delivers a non-empty body in full, check_file never takes the
\* fast path: every check_file, data and ext_data call issues a download
\* whose body replaces the local file.
C18_NoFileSizeAlwaysDownloads ==
    (call.op \in CheckOps /\ ~(\E p \in manifest.kv : p[1] = "file_size"))
    => /\ ~call.fast
       /\ call.http = 1
       /\ call.kind = "response"
       /\ payload.exists
       /\ payload.size = call.written

\* C18 witness: a call found the file of an earlier download and downloaded
\* again, under a manifest without file_size
C18_Witness ==
    /\ call.op \in CheckOps
    /\ manifest = Dict({})
    /\ call.pre.exists
    /\ ~call.fast
    /\ call.http = 1

(* ----------------------------- the manifest ---------------------------- *)
\* C11: once a handle is constructed, no step changes its manifest: not an
\* accessor, check_file, samples, data or ext_data, and not a rollover or a
\* refresh of the cache file of its manifest URL.
C11_ManifestNeverChanges ==
    [][manifest # None => manifest' = manifest]_vars

\* C11 witness: after a rollover the cache file of the manifest URL holds
\* another document than the handle's manifest, and samples was read
C11_Witness ==
    /\ manifest \in Documents
    /\ now > 0
    /\ acc.op = "samples"
    /\ \E f \in FilesOf(cache, ManifestUrl) :
          /\ json_load(cache[f]).ok
          /\ json_load(cache[f]).doc \in Documents \ {manifest}

\* the accessors by the kind of value they document
IntAccessors == {"characters", "documents", "stopwords", "jsonl_zst_file_size"}
ListAccessors == {"nouns", "verbs", "symbols", "punctuations", "sentences", "words"}
StrAccessors == {"description", "license", "category"}
DictAccessors == {"quality", "categories"}

\* C12: when get_structure returns null (or another falsy document) the
\* handle is constructed with manifest {}, and on that manifest every
\* accessor returns its default: 0 for characters, documents, stopwords and
\* the file size, [] for nouns, verbs, symbols, punctuations, sentences and
\* words, "" for description, license and category, {} for quality and
\* categories, false for categorization.
C12_EmptyManifestDefaults ==
    /\ (manifest # None /\ ~Truthy(last.ret)) => manifest = Dict({})
    /\ (manifest = Dict({}) /\ acc.op \in AccessorNames) =>
          /\ acc.op \in IntAccessors => acc.ret = PyInt(0)
          /\ acc.op \in ListAccessors =>
                acc.ret.type = "list" /\ acc.ret.doc.kv = {}
          /\ acc.op \in StrAccessors => acc.ret = PyStr("")
          /\ acc.op \in DictAccessors =>
                acc.ret.type = "dict" /\ acc.ret.doc.kv = {}
          /\ acc.op = "categorization" => acc.ret = PyBool(FALSE)

\* C12 witness: the manifest fetch failed, get_structure returned null, and
\* nouns was read on the handle
C12_Witness ==
    /\ last.op = "get_structure"
    /\ last.fetch = "failed"
    /\ last.ret = None
    /\ manifest = Dict({})
    /\ acc.op = "nouns"
    /\ acc.ret = PyObj(List(<<>>))

\* stats.quality[key] of the manifest, 0 when missing
QualityValue(m, key) == Get(Get(Get(m, "stats", Dict({})), "quality", Dict({})), key, 0)

NamedIndexes(names) == {i \in 1..ListLen(names) : HasName(ListAt(names, i))}

\* the k-th of them, in catalog order
NthNamed(names, k) ==
    CHOOSE i \in NamedIndexes(names) :
        Cardinality({j \in NamedIndexes(names) : j <= i}) = k

\* C14: for a catalog that is a sequence of entries there is exactly one
\* handle per entry with a "name", in catalog order, and none for the
\* others; get(name) returns the first handle named name, and null when no
\* handle has that name or when the catalog did not resolve.
C14_CatalogHandles ==
    /\ (speakleash.form # "none" /\ Truthy(speakleash.names)) =>
          /\ ~speakleash.none
          /\ Len(speakleash.datasets) = Cardinality(NamedIndexes(speakleash.names))
          /\ \A k \in 1..Len(speakleash.datasets) :
                speakleash.datasets[k].name
                  = Get(ListAt(speakleash.names, NthNamed(speakleash.names, k)),
                        "name", "")
    /\ (speakleash.form # "none" /\ ~Truthy(speakleash.names)) =>
          speakleash.datasets = <<>>
    /\ got.op = "get" =>
          IF \E k \in 1..Len(speakleash.datasets) :
                speakleash.datasets[k].name = got.name
          THEN /\ got.found
               /\ speakleash.datasets[got.idx].name = got.name
               /\ \A j \in 1..(got.idx - 1) :
                     speakleash.datasets[j].name # got.name
          ELSE ~got.found

\* C14 witness: the catalog [{"name": "thesis"}, {"id": "x"}, {"name":
\* "plwiki"}] gave the two handles thesis and plwiki, and get("plwiki")
\* returned the second
C14_Witness ==
    /\ speakleash.names = List(<<Dict({<<"name", "thesis">>}),
                                 Dict({<<"id", "x">>}),
                                 Dict({<<"name", "plwiki">>})>>)
    /\ Len(speakleash.datasets) = 2
    /\ speakleash.datasets[1].name = "thesis"
    /\ speakleash.datasets[2].name = "plwiki"
    /\ got = [op |-> "get", name |-> "plwiki", found |-> TRUE, idx |-> 2]

(* ------------------------ undecodable cache files ---------------------- *)
\* the candidate cache file of the call that the step makes
NextFile == <<generate_hash(last'.url), last'.ts>>

\* C15 as stated: a get_structure call of downloader/structure_downloader.py
\* that finds its candidate cache file present but not decodable treats it
\* as a miss: it fetches the URL over HTTP and, when the fetch yields a
\* document, stores that document at the cache path and returns it.
C15_Original ==
    [][(/\ last' # last
        /\ last'.op = "get_structure"
        /\ exists(cache, NextFile)
        /\ ~json_load(cache[NextFile]).ok)
       => /\ last'.http = 1
          /\ ~last'.hit
          /\ last'.fetch = "ok" =>
                /\ last'.ret = last'.served
                /\ cache'[NextFile] = json_dump(last'.served)]_vars

\* C19 as stated: the modular and the monolithic get_structure are
\* equivalent: after every sequence of calls, each by a fresh instance, on
\* the same initial directory with the same responses, both returned the
\* same result, issued the same number of HTTP requests and left the same
\* cache files with the same contents.
C19_Original ==
    twin.op = "both" =>
       /\ twin.ret_modular = twin.ret
       /\ twin.http_modular = twin.http
       /\ cache = twin.cache

(* --------------------------- concurrent calls -------------------------- *)
\* C16 as stated: when two processes run get_structure for the same URL and
\* bucket on the same directory and the server serves a document to every
\* request, each interleaving of their steps is benign: no read sees a
\* truncated file, every call returns a served document, and when both are
\* done the cache file holds a whole document.
C16_Original ==
    /\ \A p \in Procs :
          proc[p].pc = "done" =>
             /\ ~proc[p].truncated
             /\ proc[p].ret \in Documents
    /\ (\A p \in Procs : proc[p].pc = "done") =>
          /\ json_load(cache[RaceFile]).ok
          /\ json_load(cache[RaceFile]).doc \in Documents

(* --------------------------- category lists ---------------------------- *)
\* C21: a construction of a CategoryManager that finds {lang}_categories.txt
\* present issues no HTTP request for that language, returns the stripped
\* lines of the file and leaves the file as it was, whatever the clock
\* says; a construction whose fetch fails writes an empty file and returns
\* the empty list, and every later construction returns the empty list
\* again.
C21_FileIsNeverRefreshed ==
    \A l \in Langs :
       LET list == IF l = "pl" THEN cm.categories_pl ELSE cm.categories_en
       IN  /\ (cm.form = "modular" /\ cm.pre[l].exists) =>
                 /\ cm.http[l] = 0
                 /\ temp_dir[l] = cm.pre[l]
                 /\ Len(list) = Len(readlines(cm.pre[l].text))
                 /\ \A i \in DOMAIN list :
                       list[i] = strip(readlines(cm.pre[l].text)[i])
                 /\ cm.was_failed[l] => /\ list = <<>>
                                        /\ temp_dir[l].text = <<>>
           /\ (cm.form = "modular" /\ cm.http[l] = 1 /\ cm.failed[l]) =>
                 /\ list = <<>>
                 /\ temp_dir[l] = [exists |-> TRUE, text |-> <<>>]

\* C21 witness: in a later hour a manager was constructed from the two
\* files, the Polish one written by a failed fetch, the English one by a
\* fetch that served a list
C21_Witness ==
    /\ cm.form = "modular"
    /\ now > 0
    /\ cm.pre["pl"].exists /\ cm.pre["en"].exists
    /\ cm.was_failed["pl"] /\ ~cm.was_failed["en"]
    /\ cm.categories_pl = <<>>
    /\ cm.categories_en # <<>>
    /\ cm.http = [l \in Langs |-> 0]

(* --------------------------- check_category ---------------------------- *)
\* the result the description gives check_category; the Polish name of a
\* category is the category itself for "pl" and, for "en", the name at
\* the position of the category in the English list, if both lists have
\* that position
Described(mgr, meta, names, cf, lang) ==
    /\ meta.truthy
    /\ names # <<>>
    /\ \E k \in DOMAIN names :
          \E p \in (IF lang = "pl" THEN {names[k]}
                    ELSE IF lang = "en"
                    THEN {mgr.categories_pl[i] :
                             i \in {j \in DOMAIN mgr.categories_pl :
                                       j = index(mgr.categories_en,
                                                 names[k])}}
                    ELSE {}) :
             \E kv \in meta.category :
                upper(kv[1]) = upper(p) /\ kv[2] >= cf

\* C22: check_category never raises and returns true exactly when meta and
\* categories are non-empty and some category, as is for "pl" or replaced
\* by the Polish name at its position in the English list for "en",
\* equals ignoring case a key of meta["category"] with confidence >= cf.
C22_Original ==
    chk.op = "check_category" =>
       /\ ~chk.raised
       /\ chk.ret = Described(cm, chk.meta, chk.categories, chk.cf, chk.lang)

(* --------------------------- specifications ---------------------------- *)
\* the structure cache: any calls of both get_structure forms on two URLs
\* as the clock advances, with replicate_dir present or missing
NextCache ==
    \/ StructureDownloader_init
    \/ \E u \in URLS, h \in BOOLEAN, o \in StructureOutcomes : GetStructure(u, h, o)
    \/ \E u \in URLS, h \in BOOLEAN, o \in StructureOutcomes : GetStructureMono(u, h, o)
    \/ Tick

SpecCache == Init /\ [][NextCache]_vars

\* the same, when replicate_dir exists from the start
InitDir == Init /\ replicate_dir

SpecCacheDir == InitDir /\ [][NextCache]_vars

\* one dataset handle: its construction and its payload operations
NextDataset ==
    \/ \E o \in StructureOutcomes : SpeakleashDataset_init(o)
    \/ \E o \in DownloadOutcomes : CheckFile(o)
    \/ \E o \in DownloadOutcomes : Data(o)
    \/ \E o \in DownloadOutcomes : ExtData(o)

SpecDataset == Init /\ [][NextDataset]_vars

\* a download that delivers a non-empty body in full
Delivered(o) == o.kind = "response" /\ ~o.broken /\ o.written > 0

\* one dataset handle, with a server that always delivers the payload
NextDelivered ==
    \/ \E o \in StructureOutcomes : SpeakleashDataset_init(o)
    \/ \E o \in {x \in DownloadOutcomes : Delivered(x)} : CheckFile(o)
    \/ \E o \in {x \in DownloadOutcomes : Delivered(x)} : Data(o)
    \/ \E o \in {x \in DownloadOutcomes : Delivered(x)} : ExtData(o)

SpecDelivered == Init /\ [][NextDelivered]_vars

\* the fetches of a long-lived handle that yield a document
HandleOutcomes == {o \in StructureOutcomes : FetchOk(o)}

\* a download that delivers the announced body, of the largest size
Exact(o) == Delivered(o) /\ o.ok /\ o.declared = o.written /\ o.written = MaxSize

\* one long-lived handle: its construction, every operation on it, the
\* clock, and other fetches of its manifest URL through the same cache
NextHandle ==
    \/ \E o \in HandleOutcomes : SpeakleashDataset_init(o)
    \/ \E name \in AccessorNames : Access(name)
    \/ \E o \in HandleOutcomes : Samples(o)
    \/ \E o \in {x \in DownloadOutcomes : Exact(x)} : CheckFile(o)
    \/ \E o \in {x \in DownloadOutcomes : Exact(x)} : Data(o)
    \/ \E o \in {x \in DownloadOutcomes : Exact(x)} : ExtData(o)
    \/ \E o \in HandleOutcomes : GetStructureMono(ManifestUrl, TRUE, o)
    \/ Tick

SpecHandle == InitDir /\ [][NextHandle]_vars

\* one handle and its accessors, for every manifest
NextAccessors ==
    \/ \E o \in ManifestOutcomes : SpeakleashDataset_init(o)
    \/ \E name \in AccessorNames : Access(name)

SpecAccessors == Init /\ [][NextAccessors]_vars

\* the structure cache of one URL when a write can be cut short
NextCorrupt ==
    \/ StructureDownloader_init
    \/ \E h \in BOOLEAN, o \in StructureOutcomes : GetStructure(ManifestUrl, h, o)
    \/ \E h \in BOOLEAN, o \in StructureOutcomes : GetStructureMono(ManifestUrl, h, o)
    \/ \E h \in BOOLEAN, o \in StructureOutcomes : GetStructureCutShort(ManifestUrl, h, o)
    \/ Tick

SpecCorrupt == InitDir /\ [][NextCorrupt]_vars

\* two processes call get_structure for the same URL in the same hour, any
\* interleaving of their steps; the server serves a document every time
NextRace ==
    \/ \E p \in Procs : Step_exists(p)
    \/ \E p \in Procs : Step_get_data_from_file(p)
    \/ \E p \in Procs : Step_remove_old_files(p)
    \/ \E p \in Procs, o \in {x \in StructureOutcomes : FetchOk(x)} :
          Step_get_data_from_url(p, o)
    \/ \E p \in Procs : Step_open(p)
    \/ \E p \in Procs : Step_json_dump(p)

SpecRace == InitDir /\ [][NextRace]_vars

\* what requests.get can do for the list of a language in the current
\* state: any outcome when the constructor reaches the request (no file
\* and, in the modular form, a URL configured; the monolithic form has its
\* URLs built in); when it does not, nothing is drawn
RequestOutcomes(form, lang, texts) ==
    IF ~temp_dir[lang].exists /\ (form = "mono" \/ category_urls[lang])
    THEN CategoryOutcomesOver(texts)
    ELSE {[kind |-> "error", ok |-> FALSE, text |-> <<>>]}

\* the temp directory is empty; the configuration may leave a URL empty
InitCategory ==
    /\ replicate_dir = FALSE
    /\ cache = [f \in Paths |-> NoFile]
    /\ self_data = None
    /\ now = 0
    /\ manifest = None
    /\ payload = NoPayload
    /\ hist = [u \in URLS |-> NoHist]
    /\ last = Obs0
    /\ call = Call0
    /\ acc = Acc0
    /\ speakleash = NoSpeakleash
    /\ got = Got0
    /\ twin = Twin0
    /\ proc = Proc0
    /\ temp_dir = [l \in Langs |-> NoCategoriesFile]
    /\ category_urls \in [Langs -> BOOLEAN]
    /\ cm = NoCategoryManager
    /\ chk = Chk0

\* CategoryManager instances constructed one after another as the clock
\* advances
NextCategory ==
    \/ \E opl \in RequestOutcomes("modular", "pl",
                                      TextsOver({"a", " ", "\n"}, MaxText)),
          oen \in RequestOutcomes("modular", "en",
                                      TextsOver({"a", " ", "\n"}, MaxText)) :
          CategoryManager_init(opl, oen)
    \/ Tick

SpecCategory == InitCategory /\ [][NextCategory]_vars

\* the meta arguments: falsy (None or {}), without "category", or with
\* one category, named "" or "A", of confidence 1 or 2
Metas ==
    [truthy : BOOLEAN, category : {{}}]
    \cup {[truthy |-> TRUE, category |-> {<<n, c>>}] :
             n \in {<<>>, <<"A">>}, c \in {1, 2}}

\* the categories arguments: lists of the names "" and "a"
CategoryLists == UNION {[1..k -> {<<>>, <<"a">>}] : k \in 0..(MaxText - 1)}

\* instances of both forms constructed over one temp directory, and
\* check_category called on the latest
NextCheck ==
    \/ \E opl \in RequestOutcomes("modular", "pl",
                                      TextsOver({"a", "\n"}, MaxText - 1)),
          oen \in RequestOutcomes("modular", "en",
                                      TextsOver({"a", "\n"}, MaxText - 1)) :
          CategoryManager_init(opl, oen)
    \/ \E opl \in RequestOutcomes("mono", "pl",
                                      TextsOver({"a", "\n"}, MaxText - 1)),
          oen \in RequestOutcomes("mono", "en",
                                      TextsOver({"a", "\n"}, MaxText - 1)) :
          CategoryManager_mono_init(opl, oen)
    \/ \E meta \in Metas, names \in CategoryLists, cf \in {1, 2},
          lang \in {"pl", "en", "hr"} :
          CheckCategory(meta, names, cf, lang)
    \/ \E meta \in Metas, names \in CategoryLists, cf \in {1, 2},
          lang \in {"pl", "en", "hr"} :
          CheckCategoryMono(meta, names, cf, lang)

SpecCheck == Init /\ [][NextCheck]_vars

\* the directories the side-by-side run can start from: empty, or with one
\* cache file of the first hour or day, whole or cut short
TwinDirs ==
    {[f \in Paths |-> NoFile]}
    \cup {[[f \in Paths |-> NoFile] EXCEPT ![<<generate_hash(u), get_timestamp(h, 0)>>] = x] :
             u \in URLS, h \in BOOLEAN,
             x \in {Garbage} \cup {json_dump(d) : d \in Documents}}

InitTwin ==
    /\ replicate_dir = TRUE
    /\ cache \in TwinDirs
    /\ twin = [Twin0 EXCEPT !.cache = cache]
    /\ self_data = None
    /\ now = 0
    /\ manifest = None
    /\ payload = NoPayload
    /\ hist = [u \in URLS |-> NoHist]
    /\ last = Obs0
    /\ call = Call0
    /\ acc = Acc0
    /\ speakleash = NoSpeakleash
    /\ got = Got0
    /\ proc = Proc0
    /\ temp_dir = [l \in Langs |-> NoCategoriesFile]
    /\ category_urls = [l \in Langs |-> TRUE]
    /\ cm = NoCategoryManager
    /\ chk = Chk0

\* both get_structure forms side by side
NextTwin ==
    \/ \E u \in URLS, h \in BOOLEAN, o \in StructureOutcomes : BothGetStructure(u, h, o)
    \/ Tick

SpecTwin == InitTwin /\ [][NextTwin]_vars

\* the catalog of both forms: its construction and get
NextCatalog ==
    \/ \E o \in CatalogOutcomes, mo \in [DatasetNames -> ListedOutcomes] :
          Speakleash_init(o, mo)
    \/ \E o \in CatalogOutcomes, mo \in [DatasetNames -> ListedOutcomes] :
          Speakleash_mono_init(o, mo)
    \/ \E name \in DatasetNames \cup {"missing"} : Speakleash_get(name)

SpecCatalog == Init /\ [][NextCatalog]_vars

====
